---- MODULE Spec2Model ----
(***************************************************************************)
(* A model of the sampling loop of ComfyUI-WanVideoWrapper (nodes.py):     *)
(* WanVideoSampler.process, its inner functions create_window_mask and     *)
(* predict_with_cfg, and the WindowTracker class.                          *)
(*                                                                         *)
(* Tensors are abstracted: a prediction is one integer, a blend mask is a  *)
(* sequence of per-frame weights over a common denominator, a cache state  *)
(* is the list of prediction ids the network hands back.  Fractions that   *)
(* the node inputs quantise to 0.01 (cfg, denoise_strength) are kept as    *)
(* integer hundredths.                                                     *)
(***************************************************************************)
EXTENDS Integers, Sequences, FiniteSets, TLC

\* ------------------------------------------------------------------------
\* Bounds of the model
\* ------------------------------------------------------------------------
MaxSteps == 2            \* steps input of the windowed / guidance runs
ScheduleMaxSteps == 30   \* steps input of the schedule-resolution runs
MaxRuns == 2             \* calls of process() on one sampler node
MaxCalls == 3            \* direct calls of WindowTracker.get_window_id
PredMax == 1             \* network predictions are drawn from 0..PredMax

\* ------------------------------------------------------------------------
\* Program constants
\* ------------------------------------------------------------------------
None == -1               \* Python's None inside integer-valued lists
Hundred == 100           \* FLOAT inputs have "step": 0.01: value = n / 100
LatentStride == 4        \* "the latent space has 4 frames in 1"

VARIABLES
    \* the sampler node (self) and the network object, which outlive a call
    teacache_state,         \* self.teacache_state
    teacache_state_source,  \* self.teacache_state_source
    window_tracker,         \* self.window_tracker
    transformer,            \* enable_teacache and the network's cache store
    previous_noise_pred_context,  \* self.previous_noise_pred_context: << >> while
                            \* the attribute is not set, else <<run, idx, window>>
                            \* naming the window prediction it holds
    \* the call of process() in progress
    pc,                     \* "idle" | "loop" | "windows"
    args,                   \* the arguments of the call
    loc,                    \* the locals of process()
    evals,                  \* log of predict_with_cfg calls of this run
    last,                   \* the most recent predict_with_cfg call, with values
    outcome,                \* how the last call of process() ended
    runs,                   \* number of calls of process() so far
    \* direct use of a WindowTracker
    calls                   \* log of get_window_id calls: <<frames, id>>

vars == <<teacache_state, teacache_state_source, window_tracker, transformer,
          previous_noise_pred_context, pc, args, loc, evals, last, outcome, runs, calls>>

nodeVars == <<teacache_state, teacache_state_source, window_tracker, transformer,
              previous_noise_pred_context>>

\* ------------------------------------------------------------------------
\* Python helpers
\* ------------------------------------------------------------------------
Min2(a, b) == IF a < b THEN a ELSE b
Max2(a, b) == IF a > b THEN a ELSE b

\* seq[-k:] : the last k entries, the whole list when k exceeds its length
PyTail(seq, k) ==
    LET n == Len(seq)
        first == Max2(n - k, 0) + 1
    IN  SubSeq(seq, first, n)

\* dict update d[k] = v
Put(d, k, v) == [x \in (DOMAIN d) \cup {k} |-> IF x = k THEN v ELSE d[x]]

EmptyDict == [x \in {} |-> None]

\* set(frames)
FrameSetOf(frames) == {frames[k] : k \in DOMAIN frames}

\* ------------------------------------------------------------------------
\* WindowTracker (nodes.py 1982-2003)
\* ------------------------------------------------------------------------
\* WindowTracker.__init__
WindowTracker == [window_map |-> EmptyDict, next_id |-> 0, teacache_states |-> EmptyDict]

\* a key that keeps the order of the frames: what a tracker without the sort would use
WindowKeyUnsorted(frames) == frames

\* key = tuple(sorted(frames))
WindowKey(frames) == SortSeq(frames, LAMBDA a, b : a < b)

\* a get_window_id that hands out the id but forgets to advance next_id
get_window_id_stuck(wt, frames) ==
    LET key == WindowKey(frames)
        wt2 == IF key \notin DOMAIN wt.window_map
               THEN [wt EXCEPT !.window_map = Put(@, key, wt.next_id)]
               ELSE wt
    IN  [tracker |-> wt2, id |-> wt2.window_map[key]]

\* WindowTracker.get_window_id: the tracker after the call and the id returned
get_window_id(wt, frames) ==
    LET key == WindowKey(frames)
        wt2 == IF key \notin DOMAIN wt.window_map
               THEN [wt EXCEPT !.window_map = Put(@, key, wt.next_id),
                               !.next_id = @ + 1]
               ELSE wt
    IN  [tracker |-> wt2, id |-> wt2.window_map[key]]

\* a get_teacache that hands every window the base state
get_teacache_base(wt, window_id, base_state) ==
    [tracker |-> wt, state |-> base_state]

\* WindowTracker.get_teacache: the tracker after the call and the state returned
get_teacache(wt, window_id, base_state) ==
    LET wt2 == IF window_id \notin DOMAIN wt.teacache_states
               THEN [wt EXCEPT !.teacache_states = Put(@, window_id, base_state)]
               ELSE wt
    IN  [tracker |-> wt2, state |-> wt2.teacache_states[window_id]]

\* ------------------------------------------------------------------------
\* The network (wanvideo/modules/model.py), at its interface: with the step
\* cache enabled a call without a prediction id opens a new cache entry and
\* returns its id; a call with an id keeps using that entry.
\* ------------------------------------------------------------------------
NewTransformer ==
    [enable_teacache |-> FALSE, slg_blocks |-> FALSE, states |-> {}, next_pred_id |-> 0]

TransformerCall(tf, pred_id) ==
    IF tf.enable_teacache /\ pred_id = None
    THEN [tf |-> [tf EXCEPT !.states = @ \cup {tf.next_pred_id},
                            !.next_pred_id = @ + 1],
          pred_id |-> tf.next_pred_id]
    ELSE [tf |-> tf, pred_id |-> pred_id]

\* transformer.teacache_state.clear_all()
ClearAll(tf) == [tf EXCEPT !.states = {}, !.next_pred_id = 0]

\* ------------------------------------------------------------------------
\* predict_with_cfg (nodes.py 1595-1654)
\* ------------------------------------------------------------------------
\* a fast-path test that also takes every scale below 1.0
IsAtMost(a, b) == a <= b

\* math.isclose(a, b) with the default rel_tol of 1e-9: on values that are
\* whole hundredths the two are close exactly when they are equal
IsClose(a, b) == a = b

\* noise_pred_uncond + cfg_scale * (noise_pred_cond - noise_pred_uncond), in hundredths
Guided(cfg_scale, cond, uncond) == Hundred * uncond + cfg_scale * (cond - uncond)

\* teacache_state[i] if teacache_state else None   (i counted from 0)
PredId(ts, i) == IF ts # << >> THEN ts[i + 1] ELSE None

\* The result of one call: err ("" when it returns), the guided prediction in
\* hundredths, the cache state list returned, the conditioning of each network
\* call made, and the network object after the calls.
predict_with_cfg(tf, cfg_scale, batched_cfg, ts, cond, uncond) ==
    LET r1 == TransformerCall(tf, PredId(ts, 0))
    IN  IF ~batched_cfg
        THEN IF IsClose(cfg_scale, Hundred)
             THEN [err |-> "", pred |-> Hundred * cond, state |-> <<r1.pred_id>>,
                   contexts |-> << {"positive"} >>, tf |-> r1.tf]
             ELSE IF ts # << >> /\ Len(ts) < 2
             THEN [err |-> "IndexError", pred |-> 0, state |-> << >>,
                   contexts |-> << {"positive"} >>, tf |-> r1.tf]
             ELSE LET r2 == TransformerCall(r1.tf, PredId(ts, 1))
                  IN  [err |-> "", pred |-> Guided(cfg_scale, cond, uncond),
                       state |-> <<r1.pred_id, r2.pred_id>>,
                       contexts |-> << {"positive"}, {"negative"} >>, tf |-> r2.tf]
        ELSE [err |-> "", pred |-> Guided(cfg_scale, cond, uncond),
              state |-> <<r1.pred_id>>,
              contexts |-> << {"positive", "negative"} >>, tf |-> r1.tf]

\* ------------------------------------------------------------------------
\* The context schedulers (context.py, get_context_scheduler), which the
\* sampler imports: windows of context_size frames whose starts advance by
\* context_size - context_overlap from an offset that rotates with the step
\* (the schedulers of AnimateDiff-Evolved).  Windows are lists of frame
\* indices 0..num_frames-1.  Every run modelled has context_stride // 4 = 1,
\* which leaves the one window step of 1.
\* ------------------------------------------------------------------------
OrderBits == 6

RECURSIVE ReverseBits(_, _)
ReverseBits(v, bits) ==
    IF bits = 0 THEN 0
    ELSE (v % 2) * (2 ^ (bits - 1)) + ReverseBits(v \div 2, bits - 1)

\* round(num / den), halves to the even neighbour
PyRound(num, den) ==
    LET q == num \div den
        r == num % den
    IN  IF 2 * r < den THEN q
        ELSE IF 2 * r > den THEN q + 1
        ELSE IF q % 2 = 0 THEN q ELSE q + 1

\* pad = int(round(num_frames * ordered_halving(step)))
Pad(step, num_frames) ==
    PyRound(num_frames * ReverseBits(step, OrderBits), 2 ^ OrderBits)

Range(a, b) == [i \in 1..(b - a) |-> a + i - 1]

RECURSIVE RawWindows(_, _, _, _, _)
\* the windows starting at j, j + delta, ... below stop, wrapped at num_frames
RawWindows(j, stop, delta, context_size, num_frames) ==
    IF j >= stop THEN << >>
    ELSE << [i \in 1..context_size |-> (j + i - 1) % num_frames] >>
         \o RawWindows(j + delta, stop, delta, context_size, num_frames)

uniform_looped(step, num_frames, context_size, context_stride, context_overlap) ==
    IF num_frames <= context_size THEN << Range(0, num_frames) >>
    ELSE IF context_stride < 1 THEN << >>
    ELSE LET pad == Pad(step, num_frames)
         IN  RawWindows(pad, num_frames + pad, context_size - context_overlap,
                        context_size, num_frames)

\* does_window_roll_over: the first position (from 1) whose frame is below its
\* predecessor, 0 when there is none
RollIndex(w) ==
    LET rolls == {i \in 2..Len(w) : w[i] < w[i - 1]}
    IN  IF rolls = {} THEN 0 ELSE CHOOSE i \in rolls : \A k \in rolls : i <= k

InsertAt(seq, pos, x) == SubSeq(seq, 1, pos - 1) \o <<x>> \o SubSeq(seq, pos, Len(seq))

InWindow(x, w) == \E i \in 1..Len(w) : w[i] = x

RECURSIVE StandardFix(_, _, _, _, _)
\* a window that rolls over is shifted to the end, a window starting at the
\* roll value is inserted when the next one lacks it; repeated windows are dropped
StandardFix(windows, win_i, kept, num_frames, context_size) ==
    IF win_i > Len(windows) THEN kept
    ELSE LET w == windows[win_i]
             roll == RollIndex(w)
             shifted == IF roll = 0 THEN w
                        ELSE Range(num_frames - Len(w), num_frames)
             ws1 == [windows EXCEPT ![win_i] = shifted]
             next == (win_i % Len(ws1)) + 1
             ws2 == IF roll # 0 /\ ~InWindow(w[IF roll = 0 THEN 1 ELSE roll], ws1[next])
                    THEN InsertAt(ws1, win_i + 1, Range(w[roll], w[roll] + context_size))
                    ELSE ws1
             dup == \E pre_i \in 1..(win_i - 1) : ws2[pre_i] = ws2[win_i]
         IN  StandardFix(ws2, win_i + 1,
                         IF dup THEN kept ELSE Append(kept, ws2[win_i]),
                         num_frames, context_size)

uniform_standard(step, num_frames, context_size, context_stride, context_overlap) ==
    IF num_frames <= context_size THEN << Range(0, num_frames) >>
    ELSE IF context_stride < 1 THEN << >>
    ELSE LET pad == Pad(step, num_frames)
             raw == RawWindows(pad, num_frames + pad, context_size - context_overlap,
                               context_size, num_frames)
         IN  StandardFix(raw, 1, << >>, num_frames, context_size)

RECURSIVE StaticWindows(_, _, _, _)
StaticWindows(start_idx, delta, context_size, num_frames) ==
    IF start_idx >= num_frames THEN << >>
    ELSE IF start_idx + context_size >= num_frames
    THEN << Range(num_frames - context_size, num_frames) >>
    ELSE << Range(start_idx, start_idx + context_size) >>
         \o StaticWindows(start_idx + delta, delta, context_size, num_frames)

static_standard(step, num_frames, context_size, context_stride, context_overlap) ==
    IF num_frames <= context_size THEN << Range(0, num_frames) >>
    ELSE StaticWindows(0, context_size - context_overlap, context_size, num_frames)

\* context = get_context_scheduler(context_schedule); context(idx, steps, ...)
context(context_schedule, step, num_frames, context_size, context_stride, context_overlap) ==
    IF context_schedule = "uniform_looped"
    THEN uniform_looped(step, num_frames, context_size, context_stride, context_overlap)
    ELSE IF context_schedule = "uniform_standard"
    THEN uniform_standard(step, num_frames, context_size, context_stride, context_overlap)
    ELSE static_standard(step, num_frames, context_size, context_stride, context_overlap)

\* ------------------------------------------------------------------------
\* create_window_mask (nodes.py 1383-1398).  A mask is the list of the weights
\* of the window's frames, as numerators over MaskDen(context_overlap).
\* ------------------------------------------------------------------------
SeqMin(c) == CHOOSE x \in FrameSetOf(c) : \A y \in FrameSetOf(c) : x <= y
SeqMax(c) == CHOOSE x \in FrameSetOf(c) : \A y \in FrameSetOf(c) : x >= y

\* the denominator of torch.linspace(0, 1, n): n - 1, and 1 for the one-point ramp
MaskDen(context_overlap) == Max2(context_overlap - 1, 1)

\* torch.linspace(0, 1, n)[i] and torch.linspace(1, 0, n)[i], i from 0:
\* linspace(0, 1, 1) is [0.] and linspace(1, 0, 1) is [1.]
RampUp(i, n) == i
RampDown(i, n) == MaskDen(n) - i

\* err is "RuntimeError" when a ramp cannot be built or does not fit the window
create_window_mask(c, latent_video_length, context_overlap, looped) ==
    LET n == Len(c)
        up == SeqMin(c) > 0 \/ (looped /\ SeqMax(c) = latent_video_length - 1)
        down == SeqMax(c) < latent_video_length - 1 \/ (looped /\ SeqMin(c) = 0)
        \* linspace(.., 0).view(1, -1, 1, 1) is ambiguous; a ramp of more than one
        \* point cannot be assigned to a shorter slice
        bad == (up \/ down) /\ (context_overlap = 0
                                \/ (context_overlap > 1 /\ n < context_overlap))
        m1 == [i \in 1..n |-> IF up /\ i <= context_overlap
                              THEN RampUp(i - 1, context_overlap)
                              ELSE MaskDen(context_overlap)]
        m2 == [i \in 1..n |-> IF down /\ i > n - context_overlap
                              THEN RampDown(i - 1 - (n - context_overlap), context_overlap)
                              ELSE m1[i]]
    IN  IF bad THEN [err |-> "RuntimeError", mask |-> << >>, up |-> up, down |-> down]
        ELSE [err |-> "", mask |-> m2, up |-> up, down |-> down]

\* counter[:, c, :, :] += window_mask, on a counter indexed by frame + 1
AddMask(counter, c, mask) ==
    [f \in 1..Len(counter) |->
        counter[f] + (IF \E i \in 1..Len(c) : c[i] = f - 1
                      THEN mask[CHOOSE i \in 1..Len(c) : c[i] = f - 1]
                      ELSE 0)]

\* ------------------------------------------------------------------------
\* WanVideoSampler.process: arguments and locals
\* ------------------------------------------------------------------------
\* an optional argument is a record with a "given" flag (given = FALSE: None)
NoContextOptions ==
    [given |-> FALSE, context_schedule |-> "uniform_standard", context_frames |-> 81,
     context_stride |-> 4, context_overlap |-> 16, image_cond_start_step |-> 6,
     image_cond_window_count |-> 2, vae |-> FALSE]

NoFlowEditArgs ==
    [given |-> FALSE, skip_steps |-> 4, drift_steps |-> 0, source_cfg |-> 600,
     drift_cfg |-> 600]

\* loop_args: None, or the shift_skip and the two percents (in hundredths)
NoLoopArgs ==
    [given |-> FALSE, shift_skip |-> 6, start_percent |-> 0, end_percent |-> Hundred]

\* the defaults of INPUT_TYPES, with empty embeds for a text-to-video model
DefaultArgs ==
    [steps |-> 30,
     cfg |-> [is_list |-> FALSE, value |-> 600, list |-> << >>],
     scheduler |-> "unipc",
     denoise_strength |-> 100,
     samples |-> FALSE,
     context_options |-> NoContextOptions,
     teacache_args |-> FALSE,
     flowedit_args |-> NoFlowEditArgs,
     batched_cfg |-> FALSE,
     slg_args |-> FALSE,
     loop_args |-> NoLoopArgs,
     model_type |-> "t2v",
     num_prompts |-> 1,
     image_embeds |-> [lat_h |-> FALSE, lat_w |-> FALSE, image_cond |-> FALSE,
                       target_shape |-> TRUE, control_images |-> FALSE,
                       num_frames |-> 81]]

NoLocals ==
    [steps |-> 0, timesteps |-> << >>, cfg |-> << >>, latent_video_length |-> 0,
     context_frames |-> 0, context_stride |-> 0, context_overlap |-> 0,
     is_looped |-> FALSE, idx |-> 0, traj |-> "main", context_queue |-> << >>,
     counter |-> << >>, integrated |-> 0, x0 |-> FALSE, masks |-> << >>,
     image_cond |-> FALSE, section_size |-> <<0, 1>>, net_inputs |-> << >>,
     rerun |-> [same |-> FALSE, net_inputs |-> << >>],
     shift_idx |-> 0, pred_frames |-> << >>, notified |-> 0, stopped |-> FALSE,
     advances |-> << >>]

NoCall ==
    [cfg_scale |-> None, cond |-> None, uncond |-> None, pred |-> None,
     contexts |-> << >>, err |-> ""]

\* the i-th entry of the n-step schedule is <<n, i, 0>>: the solvers' set_timesteps
\* and retrieve_timesteps return one timestep per requested step
FullSchedule(n) == [i \in 1..n |-> <<n, i, 0>>]

\* the schedule under drift_flow_shift, <<n, i, 1>>, with the 0 that is appended
\* to it as entry n + 1
DriftSchedule(n) == [i \in 1..(n + 1) |-> <<n, i, 1>>]

\* timesteps[-drift_steps:] = drift_timesteps[-drift_steps:]
ReplaceTail(timesteps, drift_timesteps, drift_steps) ==
    LET new == PyTail(drift_timesteps, drift_steps)
        keep == Len(timesteps) - Len(new)
    IN  SubSeq(timesteps, 1, keep) \o new

\* The scheduler strings of the runs: the four of the node's input list, one
\* more that is spelled with "dpm++" in it, and one that is not.
SchedulerNames == {"unipc", "euler", "dpm++", "dpm++_sde", "dpm++_2m", "lcm"}

\* the spelling of a scheduler string, cut at the places where "dpm++" occurs
Spelling(scheduler) ==
    CASE scheduler = "dpm++" -> <<"dpm++">>
      [] scheduler = "dpm++_sde" -> <<"dpm++", "_sde">>
      [] scheduler = "dpm++_2m" -> <<"dpm++", "_2m">>
      [] OTHER -> <<scheduler>>

\* part in scheduler
Contains(part, scheduler) ==
    \E i \in 1..Len(Spelling(scheduler)) : Spelling(scheduler)[i] = part

\* scheduler == 'unipc', == 'euler', or 'dpm++' in scheduler
SolverSupported(scheduler) ==
    \/ scheduler = "unipc"
    \/ scheduler = "euler"
    \/ Contains("dpm++", scheduler)

\* a step count that is not rescaled by the denoise strength
NoRescale(x, p) == x

\* int(x / (p / 100)) and int(x * (p / 100)) for a positive x
IntDivPercent(x, p) == (x * Hundred) \div p
IntMulPercent(x, p) == (x * p) \div Hundred

\* timesteps[-(steps + 1):]
Truncate(timesteps, steps) == PyTail(timesteps, steps + 1)

\* [cfg] * (steps + 1) unless cfg is a list already
CfgList(cfg, steps) ==
    IF cfg.is_list THEN cfg.list ELSE [i \in 1..(steps + 1) |-> cfg.value]

\* (n - 1) // 4 + 1: pixel frames to latent frames
\* batched_cfg is not None: batched_cfg is the BOOLEAN input, False by default
IsNotNone(batched_cfg) == batched_cfg \in BOOLEAN

LatentFrames(n) == (n - 1) \div LatentStride + 1

Raise(e) == pc' = "idle" /\ outcome' = e

\* process(), from its entry to the start of the main loop (nodes.py 1278-1682)
Process(a) ==
    /\ pc = "idle"
    /\ runs' = runs + 1
    /\ args' = a
    /\ evals' = << >>
    /\ last' = NoCall
    /\ UNCHANGED calls
    /\ IF a.denoise_strength = 0
       THEN Raise("ZeroDivisionError") /\ loc' = NoLocals /\ UNCHANGED nodeVars
       ELSE IF ~SolverSupported(a.scheduler)
       THEN Raise("NotImplementedError") /\ loc' = NoLocals /\ UNCHANGED nodeVars
       ELSE IF \/ a.model_type = "i2v" /\ ~(a.image_embeds.lat_h /\ a.image_embeds.lat_w)
               \/ a.model_type # "i2v" /\ ~a.image_embeds.target_shape
       THEN Raise("ValueError") /\ loc' = NoLocals /\ UNCHANGED nodeVars
       ELSE IF a.model_type = "i2v" /\ ~a.image_embeds.image_cond
       THEN Raise("AttributeError") /\ loc' = NoLocals /\ UNCHANGED nodeVars
       ELSE IF a.slg_args /\ ~IsNotNone(a.batched_cfg)
       THEN \* assert batched_cfg is not None, "Batched cfg is not supported with SLG"
            /\ Raise("AssertionError")
            /\ loc' = NoLocals
            /\ window_tracker' = IF a.context_options.given THEN WindowTracker
                                 ELSE window_tracker
            /\ transformer' = [transformer EXCEPT !.enable_teacache = a.teacache_args]
            /\ UNCHANGED <<teacache_state, teacache_state_source,
                           previous_noise_pred_context>>
       ELSE
         LET steps1 == IntDivPercent(a.steps, a.denoise_strength)
             full == FullSchedule(steps1)
             steps2 == IF a.denoise_strength < Hundred
                       THEN IntMulPercent(steps1, a.denoise_strength) ELSE steps1
             timesteps == IF a.denoise_strength < Hundred
                          THEN Truncate(full, steps2) ELSE full
             ctx == a.context_options
             fe == a.flowedit_args
             drifted == fe.given /\ fe.drift_steps > 0
             \* the two slices of line 1593 must have one length
             mismatch == drifted /\ Min2(fe.drift_steps, Len(timesteps))
                                       # Min2(fe.drift_steps, steps2 + 1)
             l == [NoLocals EXCEPT
                     !.steps = steps2,
                     !.timesteps = IF drifted /\ ~mismatch
                                   THEN ReplaceTail(timesteps, DriftSchedule(steps2),
                                                    fe.drift_steps)
                                   ELSE timesteps,
                     !.cfg = CfgList(a.cfg, steps2),
                     !.latent_video_length = LatentFrames(a.image_embeds.num_frames),
                     !.context_frames = IF ctx.given THEN LatentFrames(ctx.context_frames) ELSE 0,
                     !.context_stride = IF ctx.given THEN ctx.context_stride \div LatentStride ELSE 0,
                     !.context_overlap = IF ctx.given THEN ctx.context_overlap \div LatentStride ELSE 0,
                     !.is_looped = (ctx.given /\ ctx.context_schedule = "uniform_looped")
                                   \/ a.loop_args.given,
                     !.image_cond = IF a.model_type = "i2v"
                                    THEN a.image_embeds.image_cond
                                    ELSE a.image_embeds.control_images,
                     \* section_size = latent_video_length / num_prompts, as the
                     \* pair <<numerator, denominator>>
                     !.section_size = IF ctx.given
                                      THEN <<LatentFrames(a.image_embeds.num_frames),
                                             a.num_prompts>>
                                      ELSE <<0, 1>>,
                     \* history: whether this call repeats the call before it, which
                     \* returned, and what the network was given in that call
                     !.rerun = IF a = args /\ outcome = "returned"
                               THEN [same |-> TRUE, net_inputs |-> loc.net_inputs]
                               ELSE [same |-> FALSE, net_inputs |-> << >>]]
         IN  /\ window_tracker' = IF ctx.given THEN WindowTracker ELSE window_tracker
             /\ transformer' = [transformer EXCEPT !.enable_teacache = a.teacache_args,
                                                   !.slg_blocks = a.slg_args]
             /\ teacache_state' = <<None, None>>
             /\ teacache_state_source' = <<None, None>>
             /\ UNCHANGED previous_noise_pred_context
             /\ IF fe.given /\ ~a.samples
                THEN Raise("TypeError") /\ loc' = NoLocals
                ELSE IF mismatch
                THEN Raise("RuntimeError") /\ loc' = NoLocals
                ELSE pc' = "loop" /\ outcome' = "running" /\ loc' = l

\* ------------------------------------------------------------------------
\* The main loop (nodes.py 1683-1947)
\* ------------------------------------------------------------------------
Preds == 0..PredMax

\* the record of one predict_with_cfg call in the log of the run
EvalRecord(traj, window_id, frames, cfg_scale, state_in, r) ==
    [idx |-> loc.idx, traj |-> traj, window_id |-> window_id, frames |-> frames,
     cfg_scale |-> cfg_scale, state_in |-> state_in, state_out |-> r.state,
     contexts |-> r.contexts, err |-> r.err]

LastCall(cfg_scale, cond, uncond, r) ==
    [cfg_scale |-> cfg_scale, cond |-> cond,
     uncond |-> IF \E i \in 1..Len(r.contexts) : "negative" \in r.contexts[i]
                THEN uncond ELSE None,
     pred |-> IF r.err = "" THEN r.pred ELSE None,
     contexts |-> r.contexts, err |-> r.err]

\* latent_shift_start_percent <= idx / len(timesteps) <= latent_shift_end_percent
InShiftRange ==
    /\ args.loop_args.given
    /\ args.loop_args.start_percent * Len(loc.timesteps) <= Hundred * loc.idx
    /\ Hundred * loc.idx <= args.loop_args.end_percent * Len(loc.timesteps)

\* torch.cat([x[:, shift_idx:]] + [x[:, :shift_idx]], dim=1) on a list of frames
ShiftLatent(x, shift_idx) ==
    SubSeq(x, shift_idx + 1, Len(x)) \o SubSeq(x, 1, shift_idx)

\* torch.cat([x[:, latent_video_length - shift_idx:]]
\*           + [x[:, :latent_video_length - shift_idx]], dim=1)
ReverseShift(x, shift_idx, latent_video_length) ==
    SubSeq(x, latent_video_length - shift_idx + 1, Len(x))
    \o SubSeq(x, 1, latent_video_length - shift_idx)

\* For each frame position of the prediction handed to the integrator, the frame
\* of the latent it was predicted from: the network's prediction at a position
\* is for the frame of latent_model_input at that position, whole or by windows.
PredictionFrames ==
    LET frames == [j \in 1..loc.latent_video_length |-> j - 1]
    IN  IF InShiftRange
        THEN ReverseShift(ShiftLatent(frames, loc.shift_idx), loc.shift_idx,
                          loc.latent_video_length)
        ELSE frames

\* shift_idx = (shift_idx + latent_skip) % latent_video_length, in the range only
NextShift ==
    IF InShiftRange
    THEN (loc.shift_idx + args.loop_args.shift_skip) % loc.latent_video_length
    ELSE loc.shift_idx

\* a source phase that never ends
InSourcePhaseAlways == TRUE

\* the source trajectory is evaluated before the drift phase only
InSourcePhase == loc.idx < Len(loc.timesteps) - args.flowedit_args.drift_steps

\* flow-edit, x_tgt = x_tgt + (sigma_prev - sigma) * (vt_tgt - vt_src): the
\* timestep entries sigma and sigma_prev are taken from, and whether vt_src is a
\* prediction or the 0 of the drift phase
FlowEditAdvance ==
    LET n == Len(loc.timesteps)
    IN  [idx |-> loc.idx,
         sigma |-> loc.timesteps[loc.idx + 1],
         sigma_prev |-> IF loc.idx < n - 1 THEN loc.timesteps[loc.idx + 2]
                        ELSE loc.timesteps[n],
         vt_src |-> IF InSourcePhase THEN "predicted" ELSE "zero"]

\* the advances of x_tgt made so far, with the one of this step
Advances ==
    IF args.flowedit_args.given THEN Append(loc.advances, FlowEditAdvance)
    ELSE loc.advances

\* the progress notification that ends an iteration: the host raises from it when
\* the user has cancelled, otherwise the loop goes on with the next index
EndIteration(stop) ==
    IF args.flowedit_args.given /\ InShiftRange
    THEN \* flow-edit assigns no noise_pred for line 1920 to rotate
         Raise("UnboundLocalError")
         /\ loc' = [loc EXCEPT !.context_queue = << >>, !.advances = Advances]
    ELSE IF stop
    THEN /\ Raise("InterruptProcessingException")
         /\ loc' = [loc EXCEPT !.integrated = @ + 1, !.x0 = TRUE,
                               !.context_queue = << >>,
                               !.pred_frames = PredictionFrames,
                               !.shift_idx = NextShift,
                               !.advances = Advances,
                               !.notified = @ + 1, !.stopped = TRUE]
    ELSE /\ pc' = "loop"
         /\ UNCHANGED outcome
         /\ loc' = [loc EXCEPT !.integrated = @ + 1, !.x0 = TRUE, !.idx = @ + 1,
                               !.context_queue = << >>,
                               !.pred_frames = PredictionFrames,
                               !.shift_idx = NextShift,
                               !.advances = Advances,
                               !.notified = @ + 1]

\* one iteration without context windows and without flow-edit: the guidance
\* evaluation, the integrator step and the progress notification, which is where
\* the host raises when the user has cancelled
NormalStep ==
    /\ pc = "loop"
    /\ loc.idx < Len(loc.timesteps)
    /\ ~args.flowedit_args.given
    /\ ~args.context_options.given
    /\ UNCHANGED <<args, runs, calls, window_tracker, teacache_state_source,
                   previous_noise_pred_context>>
    /\ IF loc.idx >= Len(loc.cfg)
       THEN /\ Raise("IndexError")
            /\ UNCHANGED <<transformer, teacache_state, loc, evals, last>>
       ELSE \E cond \in Preds, uncond \in Preds, stop \in BOOLEAN :
            LET cfg_scale == loc.cfg[loc.idx + 1]
                r == predict_with_cfg(transformer, cfg_scale, args.batched_cfg,
                                      teacache_state, cond, uncond)
            IN  /\ transformer' = r.tf
                /\ evals' = Append(evals, EvalRecord("main", None, << >>, cfg_scale,
                                                     teacache_state, r))
                /\ last' = LastCall(cfg_scale, cond, uncond, r)
                /\ IF r.err # ""
                   THEN Raise(r.err) /\ UNCHANGED <<teacache_state, loc>>
                   ELSE /\ teacache_state' = r.state
                        /\ EndIteration(stop)

\* flow-edit: if idx < skip_steps: continue
SkipStep ==
    /\ pc = "loop"
    /\ loc.idx < Len(loc.timesteps)
    /\ args.flowedit_args.given
    /\ loc.idx < args.flowedit_args.skip_steps
    /\ loc' = [loc EXCEPT !.idx = @ + 1]
    /\ UNCHANGED <<nodeVars, pc, args, evals, last, outcome, runs, calls>>

\* flow-edit, line 1721: the local cfg is rebound to the drift scales at every
\* executed step before the drift phase
ReboundCfg ==
    IF args.flowedit_args.given
       /\ loc.idx < Len(loc.timesteps) - args.flowedit_args.drift_steps
    THEN [i \in 1..(loc.steps + 1) |-> args.flowedit_args.drift_cfg]
    ELSE loc.cfg

\* one flow-edit iteration without context windows: the source evaluation on
\* self.teacache_state_source, the target evaluation on self.teacache_state,
\* the advance of x_tgt and the progress notification
FlowEditStep ==
    /\ pc = "loop"
    /\ loc.idx < Len(loc.timesteps)
    /\ args.flowedit_args.given
    /\ loc.idx >= args.flowedit_args.skip_steps
    /\ ~args.context_options.given
    /\ UNCHANGED <<args, runs, calls, window_tracker, previous_noise_pred_context>>
    /\ LET cfg == ReboundCfg
       IN  IF loc.idx >= Len(cfg)
           THEN /\ Raise("IndexError")
                /\ loc' = [loc EXCEPT !.cfg = cfg]
                /\ UNCHANGED <<transformer, teacache_state, teacache_state_source,
                               evals, last>>
           ELSE \E c_src \in Preds, u_src \in Preds, c_tgt \in Preds, u_tgt \in Preds,
                   stop \in BOOLEAN :
                LET cfg_scale == cfg[loc.idx + 1]
                    src == InSourcePhase
                    rs == predict_with_cfg(transformer, cfg_scale, args.batched_cfg,
                                           teacache_state_source, c_src, u_src)
                    tf1 == IF src THEN rs.tf ELSE transformer
                    rt == predict_with_cfg(tf1, cfg_scale, args.batched_cfg,
                                           teacache_state, c_tgt, u_tgt)
                    e_src == EvalRecord("source", None, << >>, cfg_scale,
                                        teacache_state_source, rs)
                    e_tgt == EvalRecord("target", None, << >>, cfg_scale,
                                        teacache_state, rt)
                IN  IF src /\ rs.err # ""
                    THEN /\ Raise(rs.err)
                         /\ transformer' = rs.tf
                         /\ evals' = Append(evals, e_src)
                         /\ last' = LastCall(cfg_scale, c_src, u_src, rs)
                         /\ loc' = [loc EXCEPT !.cfg = cfg]
                         /\ UNCHANGED <<teacache_state, teacache_state_source>>
                    ELSE /\ transformer' = rt.tf
                         /\ evals' = (IF src THEN Append(evals, e_src) ELSE evals)
                                     \o <<e_tgt>>
                         /\ last' = LastCall(cfg_scale, c_tgt, u_tgt, rt)
                         /\ teacache_state_source' =
                                IF src THEN rs.state ELSE teacache_state_source
                         /\ IF rt.err # ""
                            THEN /\ Raise(rt.err)
                                 /\ loc' = [loc EXCEPT !.cfg = cfg]
                                 /\ UNCHANGED teacache_state
                            ELSE /\ teacache_state' = rt.state
                                 /\ \/ /\ InShiftRange
                                       /\ Raise("UnboundLocalError")
                                       /\ loc' = [loc EXCEPT !.cfg = cfg, !.x0 = TRUE,
                                                     !.advances = Advances]
                                    \/ /\ ~InShiftRange
                                       /\ stop
                                       /\ Raise("InterruptProcessingException")
                                       /\ loc' = [loc EXCEPT !.cfg = cfg,
                                                     !.integrated = @ + 1, !.x0 = TRUE,
                                                     !.advances = Advances,
                                                     !.notified = @ + 1,
                                                     !.stopped = TRUE]
                                    \/ /\ ~InShiftRange
                                       /\ ~stop
                                       /\ pc' = "loop"
                                       /\ UNCHANGED outcome
                                       /\ loc' = [loc EXCEPT !.cfg = cfg,
                                                     !.integrated = @ + 1, !.x0 = TRUE,
                                                     !.advances = Advances,
                                                     !.notified = @ + 1,
                                                     !.idx = @ + 1]

\* context_queue = list(context(idx, steps, latent_video_length, context_frames,
\*                              context_stride, context_overlap))
ContextQueue ==
    context(args.context_options.context_schedule, loc.idx, loc.latent_video_length,
            loc.context_frames, loc.context_stride, loc.context_overlap)

Zeros(n) == [f \in 1..n |-> 0]

\* an iteration with context windows starts: counter and the prediction are
\* zeroed and the windows of the step are listed, for the source trajectory
\* first in flow-edit
BeginWindows ==
    /\ pc = "loop"
    /\ loc.idx < Len(loc.timesteps)
    /\ args.context_options.given
    /\ args.flowedit_args.given => loc.idx >= args.flowedit_args.skip_steps
    /\ pc' = "windows"
    /\ loc' = [loc EXCEPT !.cfg = ReboundCfg,
                          !.traj = IF ~args.flowedit_args.given THEN "main"
                                   ELSE IF InSourcePhase THEN "source" ELSE "target",
                          !.context_queue = ContextQueue,
                          !.counter = Zeros(loc.latent_video_length),
                          !.masks = << >>]
    /\ UNCHANGED <<nodeVars, args, evals, last, outcome, runs, calls>>

\* min(int(max(c) / section_size), count - 1), section_size = num / den
SectionIndex(c, section_size, count) ==
    Min2((SeqMax(c) * section_size[2]) \div section_size[1], count - 1)

\* What the network is given as frame 0 of the window's image conditioning:
\* "none" without image conditioning, "slice" for image_cond[:, c] as it is,
\* "init" for image_cond[:, 0], and "prev" for the re-encoded last frame of
\* self.previous_noise_pred_context, named by the run it is from (0: this run),
\* its step and its window.
ImageInput(traj, image_index) ==
    LET prev == previous_noise_pred_context
        ctx == args.context_options
    IN  IF ~loc.image_cond THEN <<"none">>
        ELSE IF traj # "main" THEN <<"init">>
        ELSE IF prev # << >> /\ image_index > 0
        THEN IF loc.idx >= ctx.image_cond_start_step
             THEN IF ctx.vae
                  THEN <<"prev", runs - prev[1], prev[2], prev[3]>>
                  ELSE <<"slice">>
             ELSE <<"init">>
        ELSE <<"slice">>

\* the body of "for c in context_queue" for the next window c
WindowEval ==
    /\ pc = "windows"
    /\ loc.context_queue # << >>
    /\ UNCHANGED <<args, runs, calls, teacache_state, teacache_state_source>>
    /\ LET c == Head(loc.context_queue)
           g == get_window_id(window_tracker, c)
           t == IF args.teacache_args
                THEN get_teacache(g.tracker, g.id, teacache_state)
                ELSE [tracker |-> g.tracker, state |-> << >>]
           prompt_index == SectionIndex(c, loc.section_size, args.num_prompts)
           \* the standard windowed pass rebinds section_size for the image windows
           with_image == loc.image_cond /\ loc.traj = "main"
           num_windows == args.context_options.image_cond_window_count
           section_size == IF with_image THEN <<loc.latent_video_length, num_windows>>
                           ELSE loc.section_size
           image_index == IF with_image THEN SectionIndex(c, section_size, num_windows)
                          ELSE 0
           img == ImageInput(loc.traj, image_index)
       IN  IF loc.idx >= Len(loc.cfg)
           THEN /\ Raise("IndexError")
                /\ window_tracker' = t.tracker
                /\ UNCHANGED <<transformer, loc, evals, last, previous_noise_pred_context>>
           ELSE \E cond \in Preds, uncond \in Preds :
                LET cfg_scale == loc.cfg[loc.idx + 1]
                    r == predict_with_cfg(transformer, cfg_scale, args.batched_cfg,
                                          t.state, cond, uncond)
                    stored == IF args.teacache_args /\ r.err = ""
                              THEN [t.tracker EXCEPT
                                       !.teacache_states = Put(@, g.id, r.state)]
                              ELSE t.tracker
                    m == create_window_mask(c, loc.latent_video_length,
                                            loc.context_overlap,
                                            loc.traj = "main" /\ loc.is_looped)
                IN  /\ transformer' = r.tf
                    /\ window_tracker' = stored
                    /\ previous_noise_pred_context' =
                           IF r.err = "" /\ with_image /\ image_index > 0
                           THEN <<runs, loc.idx, g.id>>
                           ELSE previous_noise_pred_context
                    /\ evals' = Append(evals, EvalRecord(loc.traj, g.id, c, cfg_scale,
                                                         t.state, r))
                    /\ last' = LastCall(cfg_scale, cond, uncond, r)
                    /\ IF r.err # ""
                       THEN Raise(r.err) /\ UNCHANGED loc
                       ELSE IF m.err # ""
                       THEN Raise(m.err) /\ UNCHANGED loc
                       ELSE /\ UNCHANGED <<pc, outcome>>
                            /\ loc' = [loc EXCEPT
                                         !.context_queue = Tail(@),
                                         !.counter = AddMask(@, c, m.mask),
                                         !.masks = Append(@, [c |-> c, mask |-> m.mask,
                                                              up |-> m.up, down |-> m.down,
                                                              prompt_index |-> prompt_index]),
                                         !.section_size = section_size,
                                         !.net_inputs = Append(@, img)]

\* after the last window the prediction is divided by counter; in flow-edit the
\* target windows follow the source windows; then the latent is advanced and
\* progress is notified
EndWindows ==
    /\ pc = "windows"
    /\ loc.context_queue = << >>
    /\ UNCHANGED <<nodeVars, args, evals, last, runs, calls>>
    /\ IF loc.traj = "source"
       THEN /\ UNCHANGED <<pc, outcome>>
            /\ loc' = [loc EXCEPT !.traj = "target",
                                  !.context_queue = ContextQueue,
                                  !.counter = Zeros(loc.latent_video_length),
                                  !.masks = << >>]
       ELSE \E stop \in BOOLEAN : EndIteration(stop)

\* after the loop (nodes.py 1949-1980): the network's cache store is cleared when
\* the step cache was used, and x0 is returned
Finish ==
    /\ pc = "loop"
    /\ loc.idx = Len(loc.timesteps)
    /\ pc' = "idle"
    /\ transformer' = IF args.teacache_args THEN ClearAll(transformer) ELSE transformer
    /\ outcome' = IF loc.x0 THEN "returned" ELSE "UnboundLocalError"
    /\ UNCHANGED <<args, runs, calls, window_tracker, teacache_state,
                   teacache_state_source, previous_noise_pred_context, loc, evals, last>>

\* ------------------------------------------------------------------------
\* Initial state: a fresh sampler node and network, no call in progress
\* ------------------------------------------------------------------------
Init ==
    /\ teacache_state = << >>
    /\ teacache_state_source = << >>
    /\ window_tracker = WindowTracker
    /\ transformer = NewTransformer
    /\ previous_noise_pred_context = << >>
    /\ pc = "idle"
    /\ args = DefaultArgs
    /\ loc = NoLocals
    /\ evals = << >>
    /\ last = NoCall
    /\ outcome = "none"
    /\ runs = 0
    /\ calls = << >>

\* ------------------------------------------------------------------------
\* Schedule resolution: runs that differ in steps and denoise_strength
\* ------------------------------------------------------------------------
DenoiseStrengths == {0, 25, 50, 75, 100}

CallSchedule ==
    /\ runs = 0
    /\ \E s \in 1..ScheduleMaxSteps, d \in DenoiseStrengths :
        Process([DefaultArgs EXCEPT !.steps = s, !.denoise_strength = d, !.samples = TRUE])

NextSchedule == CallSchedule \/ NormalStep \/ Finish

SpecSchedule == Init /\ [][NextSchedule]_vars

C2_ExactTruncation ==
    (pc = "loop" /\ args.denoise_strength < Hundred) =>
        LET full == (args.steps * Hundred) \div args.denoise_strength
        IN  Len(loc.timesteps) = (full * args.denoise_strength) \div Hundred

\* ------------------------------------------------------------------------
\* Guidance: runs that differ in cfg, batched_cfg and the step cache
\* ------------------------------------------------------------------------
CfgScalars == {0, 100, 600}

CfgInputs ==
    {[is_list |-> FALSE, value |-> v, list |-> << >>] : v \in CfgScalars}
    \cup {[is_list |-> TRUE, value |-> 0, list |-> l] :
             l \in UNION {[1..n -> {100, 600}] : n \in 1..MaxSteps}}

CallGuidance ==
    /\ runs = 0
    /\ \E s \in 1..MaxSteps, c \in CfgInputs, b \in BOOLEAN, t \in BOOLEAN :
        Process([DefaultArgs EXCEPT !.steps = s, !.cfg = c, !.batched_cfg = b,
                                    !.teacache_args = t])

NextGuidance == CallGuidance \/ NormalStep \/ Finish

SpecGuidance == Init /\ [][NextGuidance]_vars

\* C3 (as stated): a predict_with_cfg call with guidance scale 1.0 makes exactly
\* one network call, on the positive conditioning alone, batched or not.
C3_NoUncondAtScaleOne ==
    \A i \in 1..Len(evals) :
        evals[i].cfg_scale = Hundred => evals[i].contexts = << {"positive"} >>

\* C4: the value predict_with_cfg returns is uncond + scale * (cond - uncond), for
\* the unconditional prediction it evaluated, and for every unconditional
\* prediction when it evaluated none (the fast path at scale 1.0).
C4_GuidedFormula ==
    (last.cfg_scale # None /\ last.err = "") =>
        IF last.uncond # None
        THEN last.pred = Hundred * last.uncond + last.cfg_scale * (last.cond - last.uncond)
        ELSE \A u \in Preds :
                 last.pred = Hundred * u + last.cfg_scale * (last.cond - u)

\* the fast path has returned a conditional prediction of 1 at scale 1.0
C4_Witness ==
    /\ last.cfg_scale = Hundred
    /\ last.uncond = None
    /\ last.cond = 1
    /\ last.pred = Hundred
    /\ last.contexts = << {"positive"} >>

\* ------------------------------------------------------------------------
\* One WindowTracker, called directly
\* ------------------------------------------------------------------------
TrackerFrames == {2, 5, 7, 8}

\* frame lists of three distinct frames, in every order
WindowInputs ==
    {w \in [1..3 -> TrackerFrames] : \A i, j \in 1..3 : i # j => w[i] # w[j]}

GetWindowId ==
    /\ pc = "idle"
    /\ runs = 0
    /\ Len(calls) < MaxCalls
    /\ \E frames \in WindowInputs :
        LET r == get_window_id(window_tracker, frames)
        IN  /\ window_tracker' = r.tracker
            /\ calls' = Append(calls, <<frames, r.id>>)
    /\ UNCHANGED <<teacache_state, teacache_state_source, transformer,
                   previous_noise_pred_context, pc, args, loc, evals, last, outcome, runs>>

NextTracker == GetWindowId

SpecTracker == Init /\ [][NextTracker]_vars

FrameSet(frames) == {frames[k] : k \in DOMAIN frames}

\* the frame sets of the calls before the i-th
SeenBefore(i) == {FrameSet(calls[j][1]) : j \in 1..(i - 1)}

\* C5: two calls get the same id exactly when their frame lists hold the same
\* set of frame indices, whatever the order.
C5_IdIsFunctionOfFrameSet ==
    \A i, j \in 1..Len(calls) :
        (FrameSet(calls[i][1]) = FrameSet(calls[j][1])) <=> (calls[i][2] = calls[j][2])

\* [2,5,7] and [7,2,5] got one id, [2,5,8] another
C5_Witness ==
    \E i, j, k \in 1..Len(calls) :
        /\ calls[i][1] = <<2, 5, 7>>
        /\ calls[j][1] = <<7, 2, 5>>
        /\ calls[k][1] = <<2, 5, 8>>
        /\ calls[i][2] = calls[j][2]
        /\ calls[i][2] # calls[k][2]

\* C6: a frame set seen for the first time gets the number of frame sets seen
\* before it (ids 0, 1, 2, ... in order of first appearance), a frame set seen
\* before gets the id it got then, and next_id is the number of frame sets seen.
C6_IdsInOrderOfFirstAppearance ==
    /\ \A i \in 1..Len(calls) :
           IF FrameSet(calls[i][1]) \in SeenBefore(i)
           THEN \A j \in 1..(i - 1) :
                    FrameSet(calls[j][1]) = FrameSet(calls[i][1])
                        => calls[j][2] = calls[i][2]
           ELSE calls[i][2] = Cardinality(SeenBefore(i))
    /\ window_tracker.next_id = Cardinality(SeenBefore(Len(calls) + 1))

\* three calls: a new set, another new set, then the first set again in another order
C6_Witness ==
    /\ Len(calls) >= 3
    /\ calls[1][2] = 0
    /\ calls[2][2] = 1
    /\ calls[3][2] = 0
    /\ calls[3][1] # calls[1][1]
    /\ window_tracker.next_id = 2

\* ------------------------------------------------------------------------
\* Successive runs on one node and one network object
\* ------------------------------------------------------------------------
\* 29 pixel frames in windows of 13 with overlap 4: 8 latent frames in windows
\* of 4 with overlap 1
StaticContext ==
    [NoContextOptions EXCEPT !.given = TRUE, !.context_schedule = "static_standard",
                             !.context_frames = 13, !.context_overlap = 4]

CallRuns ==
    /\ runs < MaxRuns
    /\ \E s \in 1..MaxSteps, t \in BOOLEAN, ctx \in {NoContextOptions, StaticContext} :
        Process([DefaultArgs EXCEPT !.steps = s, !.teacache_args = t,
                                    !.context_options = ctx,
                                    !.image_embeds.num_frames = 29])

NextRuns == CallRuns \/ NormalStep \/ BeginWindows \/ WindowEval \/ EndWindows \/ Finish

SpecRuns == Init /\ [][NextRuns]_vars

\* the ids of the network's cache entries that a cache state list names
Ids(state) == {state[k] : k \in DOMAIN state} \ {None}

\* C7 (as stated): when a run with the step cache enabled enters its loop, the
\* node's two state slots name no cache entry, the window tracker holds no
\* per-window state and the network's cache store is empty, whatever the
\* outcome of the run before.
C7_CacheEmptyAtRunStart ==
    (pc = "loop" /\ loc.idx = 0 /\ evals = << >> /\ args.teacache_args) =>
        /\ Ids(teacache_state) = {}
        /\ Ids(teacache_state_source) = {}
        /\ DOMAIN window_tracker.teacache_states = {}
        /\ transformer.states = {}

\* ------------------------------------------------------------------------
\* Context windows and flow-edit: runs that differ in the window schedule, the
\* window size and overlap, the video length, the step cache, the loop
\* arguments and the flow-edit arguments
\* ------------------------------------------------------------------------
ContextInputs ==
    {NoContextOptions} \cup
    {[NoContextOptions EXCEPT !.given = TRUE, !.context_schedule = sch,
                              !.context_frames = o[1], !.context_overlap = o[2]] :
        sch \in {"uniform_standard", "uniform_looped", "static_standard"},
        o \in {x \in {9, 13} \X {4, 8, 12} : LatentFrames(x[1]) > x[2] \div LatentStride}}

FlowEditInputs ==
    {NoFlowEditArgs} \cup
    {[given |-> TRUE, skip_steps |-> sk, drift_steps |-> dr, source_cfg |-> 600,
      drift_cfg |-> 600] : sk \in {0, 1}, dr \in {0, 1}}

CallWindows ==
    /\ runs = 0
    /\ \E s \in 1..MaxSteps, ctx \in ContextInputs, fe \in FlowEditInputs,
          t \in BOOLEAN, lp \in BOOLEAN, nf \in {9, 29} :
        /\ lp => ~fe.given
        /\ Process([DefaultArgs EXCEPT !.steps = s, !.context_options = ctx,
                                       !.flowedit_args = fe, !.teacache_args = t,
                                       !.loop_args = [NoLoopArgs EXCEPT !.given = lp],
                                       !.samples = TRUE,
                                       !.image_embeds.num_frames = nf])

NextWindows ==
    \/ CallWindows
    \/ NormalStep
    \/ SkipStep
    \/ FlowEditStep
    \/ BeginWindows
    \/ WindowEval
    \/ EndWindows
    \/ Finish

SpecWindows == Init /\ [][NextWindows]_vars

\* the evaluations before the i-th that were made for the same window identity
EarlierVisits(i) ==
    {j \in 1..(i - 1) : evals[j].window_id = evals[i].window_id}

\* C8: with context windows and the step cache, the state handed to the
\* evaluation of a window is the empty base state at the first visit of its
\* identity, and at a later visit the state returned by the most recent
\* evaluation of the same identity.
C8_WindowStateLifecycle ==
    args.teacache_args =>
        \A i \in 1..Len(evals) :
            evals[i].window_id # None =>
                IF EarlierVisits(i) = {}
                THEN evals[i].state_in = <<None, None>>
                ELSE LET j == CHOOSE j \in EarlierVisits(i) :
                                  \A k \in EarlierVisits(i) : k <= j
                     IN  evals[i].state_in = evals[j].state_out

\* a window identity is visited again after another identity was evaluated in
\* between, and is handed the entries its own earlier evaluation returned
C8_Witness ==
    /\ args.teacache_args
    /\ \E i \in 1..Len(evals), j \in 1..Len(evals), k \in 1..Len(evals) :
        /\ j < k /\ k < i
        /\ evals[i].window_id # None
        /\ evals[j].window_id = evals[i].window_id
        /\ evals[k].window_id # evals[i].window_id
        /\ Ids(evals[j].state_out) # {}
        /\ evals[i].state_in = evals[j].state_out
        /\ Ids(evals[i].state_in) \cap Ids(evals[k].state_out) = {}

\* C9 (as stated): in flow-edit with the step cache, the state handed to an
\* evaluation of one trajectory names no cache entry that an earlier evaluation
\* of the other trajectory returned.
C9_TrajectoriesIndependent ==
    (args.flowedit_args.given /\ args.teacache_args) =>
        \A i \in 1..Len(evals), j \in 1..Len(evals) :
            (j < i /\ evals[j].traj # evals[i].traj) =>
                Ids(evals[i].state_in) \cap Ids(evals[j].state_out) = {}

\* C10 (as stated): once the windows of a step are accumulated, counter is
\* positive at every frame, for context_frames > context_overlap in the
\* standard and in the looped schedule.
C10_CounterPositive ==
    (/\ pc = "windows"
     /\ loc.context_queue = << >>
     /\ loc.context_frames > loc.context_overlap
     /\ args.context_options.context_schedule \in {"uniform_standard", "uniform_looped"}) =>
        \A f \in 1..Len(loc.counter) : loc.counter[f] > 0

\* the k-th and the (k + 1)-th window of the current pass overlap in exactly
\* context_overlap frames: the last frames of the one are the first of the other
Adjacent(k) ==
    LET a == loc.masks[k].c
        b == loc.masks[k + 1].c
        ov == loc.context_overlap
    IN  /\ ov > 0
        /\ Len(a) >= ov /\ Len(b) >= ov
        /\ \A o \in 1..ov : a[Len(a) - ov + o] = b[o]
        /\ loc.masks[k].down
        /\ loc.masks[k + 1].up

\* C11 (as stated): where two adjacent windows overlap in context_overlap
\* frames, the weight of the earlier window (ramp-down) and of the later window
\* (ramp-up) sum to 1 at every overlapped frame.
C11_BlendContinuity ==
    \A k \in 1..(Len(loc.masks) - 1) :
        Adjacent(k) =>
            LET a == loc.masks[k].mask
                b == loc.masks[k + 1].mask
                ov == loc.context_overlap
            IN  \A o \in 1..ov : a[Len(a) - ov + o] + b[o] = MaskDen(ov)

\* C12 (as stated): a mask has the ramp-up iff its window is not the first one
\* (it does not hold frame 0) and the ramp-down iff it is not the last one (it
\* does not hold the last frame), the frames outside the two ramps have weight
\* 1, and in the looped schedule every mask has both ramps, in the standard
\* windowed pass and in both flow-edit passes.
C12_RampsByPosition ==
    \A k \in 1..Len(loc.masks) :
        LET m == loc.masks[k]
            n == Len(m.c)
            ov == loc.context_overlap
            looped == args.context_options.context_schedule = "uniform_looped"
        IN  /\ m.up <=> (looped \/ SeqMin(m.c) > 0)
            /\ m.down <=> (looped \/ SeqMax(m.c) < loc.latent_video_length - 1)
            /\ \A i \in 1..n : (i > ov /\ i <= n - ov) => m.mask[i] = MaskDen(ov)

\* all windows of the pass are accumulated and some frame has no weight
ZeroWeight ==
    /\ pc = "windows"
    /\ loc.context_queue = << >>
    /\ \E f \in 1..Len(loc.counter) : loc.counter[f] = 0

\* process() has ended by raising an error of its own
Failed ==
    /\ pc = "idle"
    /\ outcome \notin {"none", "running", "returned", "InterruptProcessingException"}

\* C13 (as stated): when a frame has zero accumulated weight after the windows
\* of a step, the next thing the sampler does is raise an error; it does not
\* divide by counter and go on.
C13_ZeroWeightRaises == [][ZeroWeight => Failed']_vars

\* C14 (as stated): a run whose cfg list does not have one scale per resolved
\* timestep has raised, and no network evaluation was made.
C14_ListMismatchRaisesBeforeLoop ==
    (/\ runs > 0
     /\ loc.timesteps # << >>
     /\ args.cfg.is_list
     /\ Len(args.cfg.list) # Len(loc.timesteps)) =>
        (Failed /\ evals = << >>)

\* ------------------------------------------------------------------------
\* Prompt sections: windowed runs that differ in the number of prompts, the
\* image conditioning and image_cond_window_count
\* ------------------------------------------------------------------------
\* image embeds of an image-to-video run of 29 frames, and of a text-to-video one
I2VEmbeds ==
    [DefaultArgs.image_embeds EXCEPT !.lat_h = TRUE, !.lat_w = TRUE,
                                     !.image_cond = TRUE, !.target_shape = FALSE,
                                     !.num_frames = 29]

T2VEmbeds == [DefaultArgs.image_embeds EXCEPT !.num_frames = 29]

PromptContexts ==
    {[NoContextOptions EXCEPT !.given = TRUE, !.context_schedule = sch,
                              !.context_frames = 13, !.context_overlap = 4,
                              !.image_cond_window_count = w] :
        sch \in {"uniform_standard", "static_standard"}, w \in {1, 2, 4}}

CallPrompts ==
    /\ runs = 0
    /\ \E s \in 1..MaxSteps, ctx \in PromptContexts, np \in {1, 2}, i2v \in BOOLEAN,
          fe \in {NoFlowEditArgs, [NoFlowEditArgs EXCEPT !.given = TRUE, !.skip_steps = 0]} :
        Process([DefaultArgs EXCEPT !.steps = s, !.context_options = ctx,
                                    !.num_prompts = np, !.flowedit_args = fe,
                                    !.samples = TRUE,
                                    !.model_type = IF i2v THEN "i2v" ELSE "t2v",
                                    !.image_embeds = IF i2v THEN I2VEmbeds ELSE T2VEmbeds])

NextPrompts == CallPrompts \/ BeginWindows \/ WindowEval \/ EndWindows \/ Finish

SpecPrompts == Init /\ [][NextPrompts]_vars

\* C15 (as stated): every window of every windowed pass uses the prompt at index
\* min(floor(max(c) / (L / P)), P - 1), L the latent frame count and P the
\* number of positive prompts, with or without image conditioning.
C15_PromptOfSection ==
    \A k \in 1..Len(loc.masks) :
        loc.masks[k].prompt_index =
            Min2((SeqMax(loc.masks[k].c) * args.num_prompts) \div loc.latent_video_length,
                 args.num_prompts - 1)

\* ------------------------------------------------------------------------
\* Latent-shift loop: runs with loop_args that differ in shift_skip, the
\* percent range, the video length, context windows and flow-edit
\* ------------------------------------------------------------------------
LoopInputs ==
    {[given |-> TRUE, shift_skip |-> sk, start_percent |-> r[1], end_percent |-> r[2]] :
        sk \in {0, 1, 6}, r \in {<<0, Hundred>>, <<0, 50>>, <<50, Hundred>>}}

CallLoop ==
    /\ runs = 0
    /\ \E s \in 1..MaxSteps, lp \in LoopInputs, nf \in {9, 29},
          ctx \in {NoContextOptions, StaticContext},
          fe \in {NoFlowEditArgs, [NoFlowEditArgs EXCEPT !.given = TRUE, !.skip_steps = 0],
                  [NoFlowEditArgs EXCEPT !.given = TRUE, !.skip_steps = 1]} :
        Process([DefaultArgs EXCEPT !.steps = s, !.loop_args = lp,
                                    !.context_options = ctx, !.flowedit_args = fe,
                                    !.samples = TRUE, !.image_embeds.num_frames = nf])

NextLoop ==
    \/ CallLoop
    \/ NormalStep
    \/ SkipStep
    \/ FlowEditStep
    \/ BeginWindows
    \/ WindowEval
    \/ EndWindows
    \/ Finish

SpecLoop == Init /\ [][NextLoop]_vars

\* the step indices below idx whose fraction i / N lies in the percent range
ShiftedSteps(idx) ==
    {i \in 0..(idx - 1) :
        /\ args.loop_args.start_percent * Len(loc.timesteps) <= Hundred * i
        /\ Hundred * i <= args.loop_args.end_percent * Len(loc.timesteps)}

\* C16 (as stated): with loop_args, every step in the percent range rotates the
\* latent and rotates the prediction back, so that the prediction handed to the
\* integrator is frame for frame that of the unrotated latent, and adds
\* shift_skip to shift_idx modulo L; the steps outside the range leave shift_idx
\* alone; 0 <= shift_idx < L throughout.
C16_LatentShift ==
    (args.loop_args.given /\ runs > 0) =>
        /\ outcome # "UnboundLocalError"
        /\ pc \in {"loop", "windows"} =>
            /\ loc.shift_idx >= 0 /\ loc.shift_idx < loc.latent_video_length
            /\ loc.shift_idx =
                 (args.loop_args.shift_skip * Cardinality(ShiftedSteps(loc.idx)))
                     % loc.latent_video_length
            /\ loc.integrated > 0 =>
                 loc.pred_frames = [j \in 1..loc.latent_video_length |-> j - 1]

\* C17 (as stated): in every mode each step index of the schedule gives one
\* progress notification: idx notifications have been made when the loop is at
\* index idx, and a completed run has made len(timesteps) of them.
C17_OneNotificationPerStep ==
    /\ pc = "loop" => loc.notified = loc.idx
    /\ outcome = "returned" => loc.notified = Len(loc.timesteps)

\* C18 (as stated): when the progress callback has signalled stop after a step,
\* process() returns, and what it returns is the latent of that step.
C18_StopReturnsLatent ==
    loc.stopped => (outcome = "returned" /\ loc.x0)

\* ------------------------------------------------------------------------
\* Configuration errors: runs that differ in the scheduler string, the model
\* variant and the entries of the image embeds
\* ------------------------------------------------------------------------
CallConfig ==
    /\ runs = 0
    /\ \E s \in 1..MaxSteps, sch \in SchedulerNames, mt \in {"i2v", "t2v"},
          e \in [lat_h : BOOLEAN, lat_w : BOOLEAN, image_cond : BOOLEAN,
                 target_shape : BOOLEAN], c \in {100, 600} :
        Process([DefaultArgs EXCEPT !.steps = s, !.scheduler = sch,
                                    !.cfg.value = c,
                                    !.model_type = mt,
                                    !.image_embeds.lat_h = e.lat_h,
                                    !.image_embeds.lat_w = e.lat_w,
                                    !.image_embeds.image_cond = e.image_cond,
                                    !.image_embeds.target_shape = e.target_shape])

NextConfig == CallConfig \/ NormalStep \/ Finish

SpecConfig == Init /\ [][NextConfig]_vars

\* the three configurations of the statement
UnsupportedKind == args.scheduler \notin {"unipc", "euler", "dpm++", "dpm++_sde"}

I2VLacksSize ==
    args.model_type = "i2v" /\ ~(args.image_embeds.lat_h /\ args.image_embeds.lat_w)

T2VLacksShape == args.model_type = "t2v" /\ ~args.image_embeds.target_shape

\* C19 (as stated): process() raises, with no network evaluation made, whenever
\* the scheduler string is not one of unipc, euler, dpm++, dpm++_sde, or the
\* model is image-to-video and the embeds lack lat_h or lat_w, or the model is
\* text-to-video and the embeds lack target_shape.
C19_ConfigurationErrors ==
    (runs > 0 /\ (UnsupportedKind \/ I2VLacksSize \/ T2VLacksShape)) =>
        (Failed /\ evals = << >>)

\* ------------------------------------------------------------------------
\* Reproducibility: runs of one node, one after the other, on image-to-video
\* inputs with context windows
\* ------------------------------------------------------------------------
RerunContexts ==
    {[NoContextOptions EXCEPT !.given = TRUE, !.context_schedule = "static_standard",
                              !.context_frames = 13, !.context_overlap = 4,
                              !.image_cond_start_step = st, !.vae = v] :
        st \in {0, 6}, v \in BOOLEAN}

CallRerun ==
    /\ runs < MaxRuns
    /\ \E ctx \in RerunContexts :
        Process([DefaultArgs EXCEPT !.steps = 1, !.context_options = ctx,
                                    !.model_type = "i2v",
                                    !.image_embeds = I2VEmbeds])

NextRerun == CallRerun \/ BeginWindows \/ WindowEval \/ EndWindows \/ Finish

SpecRerun == Init /\ [][NextRerun]_vars

\* C20 (as stated): a run that repeats the run before it on the same node, with
\* the same seed and configuration, returns the same latents: the network, a
\* function of its inputs, is given in the second run what it was given in the
\* first, evaluation by evaluation.
C20_Reproducible ==
    (outcome = "returned" /\ loc.rerun.same) => loc.net_inputs = loc.rerun.net_inputs

\* ------------------------------------------------------------------------
\* WanVideoEncode.encode: a call of the encode node.  args and loc hold the
\* arguments and the local variables of the call; a tensor is modelled by its
\* shape, a latent also by its multiplier (hundredths) and the noise flag.
\* ------------------------------------------------------------------------
LatentChannels == 16
SpatialStride == 8

\* the names bound in encode() when the return statement is reached: latents
\* on every path, latent_mask only in the else branch of "if mask is None"
EncodeLocals(a) ==
    LET shape == <<1, LatentChannels, LatentFrames(a.image[1]),
                   a.image[2] \div SpatialStride, a.image[3] \div SpatialStride>>
        latents == [shape |-> shape,
                    strength |-> a.latent_strength,
                    noised |-> a.noise_aug_strength > 0,
                    tiled |-> ~a.taehv /\ a.enable_vae_tiling]
        \* interpolate to (1, T', h, w), then repeat over the latent channels
        interpolated == <<1, shape[3], shape[4], shape[5]>>
        latent_mask == <<1, shape[2], interpolated[2], interpolated[3], interpolated[4]>>
    IN  IF a.mask
        THEN [latents |-> latents, latent_mask |-> latent_mask]
        ELSE [latents |-> latents]

\* return ({"samples": latents, "mask": latent_mask},)
Encode(a) ==
    /\ runs' = runs + 1
    /\ args' = a
    /\ pc' = "idle"
    /\ UNCHANGED <<nodeVars, evals, last, calls>>
    /\ LET l == EncodeLocals(a)
       IN  IF "latent_mask" \in DOMAIN l
           THEN /\ outcome' = "returned"
                /\ loc' = l @@ [result |-> [samples |-> l.latents,
                                             mask |-> l.latent_mask]]
           ELSE /\ outcome' = "UnboundLocalError"
                /\ loc' = l

EncodeInputs ==
    [image : {1, 5, 9} \X {64} \X {64, 128},
     enable_vae_tiling : BOOLEAN,
     taehv : BOOLEAN,
     noise_aug_strength : {0, 10},
     latent_strength : {50, Hundred},
     mask : BOOLEAN]

CallEncode ==
    /\ pc = "idle"
    /\ runs < MaxRuns
    /\ \E a \in EncodeInputs : Encode(a)

NextEncode == CallEncode

SpecEncode == Init /\ [][NextEncode]_vars

\* C21 (as stated): encode() called without a mask returns the encoded latent.
C21_EncodeWithoutMaskReturns ==
    (runs > 0 /\ ~args.mask) => (outcome = "returned" /\ "result" \in DOMAIN loc)

\* C22 (as stated): in non-batched mode, whatever the per-step guidance scales,
\* the cache-state list handed to predict_with_cfg has an entry for every
\* branch the step evaluates: no call fails on a missing unconditional slot.
C22_CacheSlotForEveryBranch ==
    ~args.batched_cfg =>
        \A i \in 1..Len(evals) :
            /\ evals[i].err = ""
            /\ Len(evals[i].state_in) >= Len(evals[i].contexts)

\* the loop of a flow-edit run has gone through every index of the schedule
FlowEditLoopCompleted ==
    /\ args.flowedit_args.given
    /\ pc = "idle"
    /\ outcome # "running"
    /\ Len(loc.timesteps) > 0
    /\ loc.idx = Len(loc.timesteps)

\* C23 (as stated): a flow-edit run whose loop runs to completion returns a
\* latent, for every skip_steps >= 0: x0 is defined at the return statement.
C23_FlowEditReturnsLatent ==
    FlowEditLoopCompleted => (outcome = "returned" /\ loc.x0)

\* the steps at which the target trajectory has been evaluated
ExecutedSteps == {evals[i].idx : i \in {j \in 1..Len(evals) : evals[j].traj = "target"}}

\* C24 (as stated): with loop_args and flowedit_args both supplied every
\* executed step completes: the reverse shift reads a prediction the step has
\* produced, so no step ends in an unbound name and every step that has been
\* evaluated has advanced the target.
C24_ShiftedFlowEditStepCompletes ==
    (args.loop_args.given /\ args.flowedit_args.given /\ runs > 0) =>
        /\ outcome # "UnboundLocalError"
        /\ (pc = "loop" /\ ~args.context_options.given) =>
               Cardinality(ExecutedSteps) = loc.integrated

\* C25 (as stated): the window prediction used as image conditioning at any
\* step was produced earlier in the same run, never left on the node by an
\* earlier run.
C25_ConditioningFromSameRun ==
    \A k \in 1..Len(loc.net_inputs) :
        loc.net_inputs[k][1] = "prev" => loc.net_inputs[k][2] = 0

\* C26 (as stated): for every denoise_strength in [0.0, 1.0] and every
\* steps >= 1 the step count is resolved without an arithmetic error and the
\* schedule has at least one timestep.
C26_StepResolutionCompletes ==
    runs > 0 => (outcome # "ZeroDivisionError" /\ Len(loc.timesteps) >= 1)

\* ------------------------------------------------------------------------
\* Flow-edit: runs that differ in skip_steps, drift_steps and the step count,
\* with three guidance scales that can be told apart, whole-latent and windowed
\* ------------------------------------------------------------------------
SamplerCfg == 600
SourceCfg == 200
DriftCfg == 400

FlowEditRuns ==
    {[given |-> TRUE, skip_steps |-> sk, drift_steps |-> dr,
      source_cfg |-> SourceCfg, drift_cfg |-> DriftCfg] :
        sk \in 0..MaxSteps, dr \in 0..MaxSteps}

CallFlowEdit ==
    /\ runs = 0
    /\ \E s \in 1..MaxSteps, fe \in FlowEditRuns, t \in BOOLEAN,
          ctx \in {NoContextOptions, StaticContext} :
        Process([DefaultArgs EXCEPT !.steps = s, !.flowedit_args = fe,
                                    !.cfg.value = SamplerCfg,
                                    !.teacache_args = t,
                                    !.context_options = ctx, !.samples = TRUE,
                                    !.image_embeds.num_frames = 29])

NextFlowEdit ==
    \/ CallFlowEdit
    \/ SkipStep
    \/ FlowEditStep
    \/ BeginWindows
    \/ WindowEval
    \/ EndWindows
    \/ Finish

SpecFlowEdit == Init /\ [][NextFlowEdit]_vars

\* the idx-th step lies before the drift phase
BeforeDrift(idx) == idx < Len(loc.timesteps) - args.flowedit_args.drift_steps

\* C27 (as stated): the source prediction of a step is guided with source_cfg,
\* the target prediction before the drift phase with the sampler's own cfg, and
\* drift_cfg is used at the last drift_steps steps only.
C27_GuidanceScaleByPhase ==
    \A i \in 1..Len(evals) :
        /\ evals[i].traj = "source" => evals[i].cfg_scale = args.flowedit_args.source_cfg
        /\ (evals[i].traj = "target" /\ BeforeDrift(evals[i].idx)) =>
               evals[i].cfg_scale = args.cfg.value
        /\ evals[i].cfg_scale = args.flowedit_args.drift_cfg => ~BeforeDrift(evals[i].idx)

\* the steps at which the source trajectory has been evaluated
SourceSteps == {evals[i].idx : i \in {j \in 1..Len(evals) : evals[j].traj = "source"}}

\* the steps at which x_tgt has been advanced
AdvancedSteps == {loc.advances[k].idx : k \in 1..Len(loc.advances)}

C29_NonzeroStepSize ==
    \A k \in 1..Len(loc.advances) :
        /\ loc.advances[k].sigma_prev # loc.advances[k].sigma
        /\ loc.advances[k].sigma_prev[2] > loc.advances[k].sigma[2]

\* ------------------------------------------------------------------------
\* Skip-layer guidance: runs that differ in slg_args, batched_cfg and cfg
\* ------------------------------------------------------------------------
CallSlg ==
    /\ runs = 0
    /\ \E s \in 1..MaxSteps, c \in CfgScalars, b \in BOOLEAN, g \in BOOLEAN,
          t \in BOOLEAN :
        Process([DefaultArgs EXCEPT !.steps = s, !.cfg.value = c, !.batched_cfg = b,
                                    !.slg_args = g, !.teacache_args = t])

NextSlg == CallSlg \/ NormalStep \/ Finish

SpecSlg == Init /\ [][NextSlg]_vars

\* C30 (as stated): a call with slg_args and batched_cfg=True is rejected: it
\* raises before any network evaluation.
C30_BatchedSlgRejected ==
    (runs > 0 /\ args.slg_args /\ args.batched_cfg) => (Failed /\ evals = << >>)

====
